---- MODULE Spec2Model ----
(***************************************************************************)
(* ListenBrainz -> Spotify history converter (src/code/main.py).           *)
(*                                                                         *)
(* The model covers the matching and resolution engine: normalize_string,  *)
(* the result cache (load_cache / save_cache), try_alternate_queries,      *)
(* query_spotify_api and the event loop of convert_with_spotify_api.       *)
(*                                                                         *)
(* Python strings are modelled as sequences of one-character strings, so   *)
(* that every string operation of the source (lower, re.sub, split,        *)
(* replace, strip, f-string concatenation) is computed, not assumed.       *)
(* The alphabet has no newline: every "." of a regular expression matches  *)
(* every character of the model.                                           *)
(***************************************************************************)
EXTENDS Integers, Sequences, FiniteSets, Bags, TLC

(***************************************************************************)
(* Bounds of the model.                                                    *)
(***************************************************************************)
\* events read from the input files, over all runs
MaxEvents == 2
\* storage errors (open or write of the cache file failing), over all runs
MaxFaults == 1

(***************************************************************************)
(* Strings.                                                                *)
(***************************************************************************)
UpperChars == <<"A","B","C","D","E","F","G","H","I","J","K","L","M",
                "N","O","P","Q","R","S","T","U","V","W","X","Y","Z">>
LowerChars == <<"a","b","c","d","e","f","g","h","i","j","k","l","m",
                "n","o","p","q","r","s","t","u","v","w","x","y","z">>
Digits == {"0","1","2","3","4","5","6","7","8","9"}

\* the characters \s matches, among those of the model
Whitespace == {" ", "\t"}

Range(f) == {f[i] : i \in DOMAIN f}

\* str.lower() on one character
LowerChar(c) ==
    IF \E i \in DOMAIN UpperChars : UpperChars[i] = c
    THEN LowerChars[CHOOSE i \in DOMAIN UpperChars : UpperChars[i] = c]
    ELSE c

\* str.lower()
Lower(s) == [i \in DOMAIN s |-> LowerChar(s[i])]

\* s[i:] starts with p (i counted from 1)
StartsAt(s, i, p) ==
    /\ i + Len(p) - 1 <= Len(s)
    /\ \A k \in 1..Len(p) : s[i + k - 1] = p[k]

\* the index after the longest run of whitespace starting at i
RECURSIVE SkipWs(_, _)
SkipWs(s, i) ==
    IF i <= Len(s) /\ s[i] \in Whitespace THEN SkipWs(s, i + 1) ELSE i

\* the first index >= i holding c, or 0
RECURSIVE IndexFrom(_, _, _)
IndexFrom(s, i, c) ==
    IF i > Len(s) THEN 0
    ELSE IF s[i] = c THEN i
    ELSE IndexFrom(s, i + 1, c)

\* One alternative of a regular expression of the shape  \s* open .*? close
\* (ws = TRUE) or  open .*? close  (ws = FALSE), where close is one character:
\* the index of the last character of its match starting at i, or 0.
\* \s* is greedy and backtracking cannot help it (a shorter run is followed
\* by whitespace, not by open); .*? stops at the first close.
MatchEnd(s, i, alt) ==
    LET j == IF alt.ws THEN SkipWs(s, i) ELSE i
    IN  IF StartsAt(s, j, alt.open)
        THEN IndexFrom(s, j + Len(alt.open), alt.close)
        ELSE 0

\* the end of the match of the first alternative of alts that matches at i
RECURSIVE FirstMatchEnd(_, _, _, _)
FirstMatchEnd(s, i, alts, k) ==
    IF k > Len(alts) THEN 0
    ELSE IF MatchEnd(s, i, alts[k]) # 0 THEN MatchEnd(s, i, alts[k])
    ELSE FirstMatchEnd(s, i, alts, k + 1)

\* re.sub(alts[1] | alts[2] | ..., "", s): leftmost non-overlapping matches
RECURSIVE ReSubFrom(_, _, _)
ReSubFrom(s, i, alts) ==
    IF i > Len(s) THEN <<>>
    ELSE LET e == FirstMatchEnd(s, i, alts, 1)
         IN  IF e # 0 THEN ReSubFrom(s, e + 1, alts)
             ELSE <<s[i]>> \o ReSubFrom(s, i + 1, alts)

ReSub(s, alts) == ReSubFrom(s, 1, alts)

\* r"\s*\(feat\.?.*?\)" : the optional "." is matched by .*? as well, and it
\* is not ")", so the match ends at the first ")" after "(feat" either way
FeatClause == [ws |-> TRUE, open |-> <<"(","f","e","a","t">>, close |-> ")"]
\* r"\s*\[.*?\]"
WsBracket == [ws |-> TRUE, open |-> <<"[">>, close |-> "]"]
\* r"\s*\(.*?\)"
WsParen == [ws |-> TRUE, open |-> <<"(">>, close |-> ")"]
\* r"\[.*?\]"
Bracket == [ws |-> FALSE, open |-> <<"[">>, close |-> "]"]

\* [a-z0-9 ]
IsKept(c) == c \in Range(LowerChars) \cup Digits \cup {" "}

\* re.sub(r"\s+", " ", s)
RECURSIVE CollapseWsFrom(_, _)
CollapseWsFrom(s, i) ==
    IF i > Len(s) THEN <<>>
    ELSE IF s[i] \in Whitespace THEN <<" ">> \o CollapseWsFrom(s, SkipWs(s, i))
    ELSE <<s[i]>> \o CollapseWsFrom(s, i + 1)

CollapseWs(s) == CollapseWsFrom(s, 1)

\* the index of the last character that is not trailing whitespace, or 0
RECURSIVE LastNonWs(_, _)
LastNonWs(s, i) ==
    IF i = 0 THEN 0
    ELSE IF s[i] \in Whitespace THEN LastNonWs(s, i - 1)
    ELSE i

\* str.strip()
Strip(s) ==
    LET a == SkipWs(s, 1)
        b == LastNonWs(s, Len(s))
    IN  IF a > b THEN <<>> ELSE SubSeq(s, a, b)

\* the first index >= i at which p occurs in s, or 0
RECURSIVE FindFrom(_, _, _)
FindFrom(s, i, p) ==
    IF i + Len(p) - 1 > Len(s) THEN 0
    ELSE IF StartsAt(s, i, p) THEN i
    ELSE FindFrom(s, i + 1, p)

\* s.split(p)[0]
SplitFirst(s, p) ==
    LET i == FindFrom(s, 1, p)
    IN  IF i = 0 THEN s ELSE SubSeq(s, 1, i - 1)

\* s.replace(p, "")
RECURSIVE RemoveAllFrom(_, _, _)
RemoveAllFrom(s, i, p) ==
    IF i > Len(s) THEN <<>>
    ELSE IF StartsAt(s, i, p) THEN RemoveAllFrom(s, i + Len(p), p)
    ELSE <<s[i]>> \o RemoveAllFrom(s, i + 1, p)

RemoveAll(s, p) == RemoveAllFrom(s, 1, p)

\* p in s
Contains(s, p) == FindFrom(s, 1, p) # 0

\* s[i:].split(p)[-1]
RECURSIVE SplitLastFrom(_, _, _)
SplitLastFrom(s, i, p) ==
    LET j == FindFrom(s, i, p)
    IN  IF j = 0 THEN SubSeq(s, i, Len(s))
        ELSE SplitLastFrom(s, j + Len(p), p)

\* s.split(p)[-1]
SplitLast(s, p) == SplitLastFrom(s, 1, p)

\* the characters of s as one string value
RECURSIVE Join(_)
Join(s) == IF s = <<>> THEN "" ELSE s[1] \o Join(Tail(s))

\* normalize_string(s)
normalize_string(s) ==
    LET s1 == Lower(s)
        s2 == ReSub(s1, <<FeatClause>>)
        s3 == ReSub(s2, <<WsBracket>>)
        s4 == SelectSeq(s3, IsKept)
        s5 == CollapseWs(s4)
    IN  Strip(s5)

(***************************************************************************)
(* Values.                                                                 *)
(***************************************************************************)
\* Python's None, as a cache value and as a result
None == [none |-> TRUE, spotify_track_uri |-> "", album_name |-> ""]

\* the dict built from items[0]
Result(item) ==
    [none |-> FALSE, spotify_track_uri |-> item.uri, album_name |-> item.album]

\* Python truth of a result: None is falsy, a non-empty dict is truthy
Truthy(v) == ~v.none

\* the top item the search endpoint may answer with
Items == {[uri |-> "spotify:track:1", album |-> "album 1"]}

\* what one search request may come back with: a 200 response with a top
\* item, a 200 response with no item, a non-200 response, an exception
Responses ==
    {[kind |-> "items", item |-> it] : it \in Items}
    \cup {[kind |-> k, item |-> CHOOSE it \in Items : TRUE] :
            k \in {"empty", "status", "error"}}

\* the empty dict
EmptyMap == [k \in {} |-> None]

\* an assignment that leaves key alone in the dict
PutAlone(c, key, value) == [k \in {key} |-> value]

\* cache[key] = value
Put(c, key, value) ==
    [k \in DOMAIN c \cup {key} |-> IF k = key THEN value ELSE c[k]]

(***************************************************************************)
(* Input events: the lines of the .jsonl files.  shape tells how far the   *)
(* line gets through lines 190-199: "ok", or what it lacks; the other      *)
(* fields are those of track_metadata and of its additional_info (an empty *)
(* value stands for an absent key).                                        *)
(***************************************************************************)
\* "open.spotify.com/track/"
TrackPage == <<"o","p","e","n",".","s","p","o","t","i","f","y",".","c","o","m",
               "/","t","r","a","c","k","/">>

\* a spotify_id as ListenBrainz stores it
TrackUrl ==
    <<"h","t","t","p","s",":","/","/">>
    \o TrackPage \o <<"x","1">>

Events == <<
    [shape |-> "ok", music_service |-> "", spotify_id |-> <<>>,
     artist_name  |-> <<"A">>,
     track_name   |-> <<"T"," ","(","f","e","a","t","."," ","B",")">>,
     release_name |-> "release 1"],
    [shape |-> "ok", music_service |-> "", spotify_id |-> <<>>,
     artist_name  |-> <<"A"," ","f","e","a","t","."," ","B">>,
     track_name   |-> <<"T"," ","R","e","m","a","s","t","e","r","e","d",
                        " ","[","x","]">>,
     release_name |-> "release 2"],
    [shape |-> "ok", music_service |-> "", spotify_id |-> <<>>,
     artist_name  |-> <<"a">>,
     track_name   |-> <<"!","!">>,
     release_name |-> "release 3"],
    [shape |-> "ok", music_service |-> "", spotify_id |-> TrackUrl,
     artist_name  |-> <<"A">>,
     track_name   |-> <<"T">>,
     release_name |-> "release 4"],
    [shape |-> "ok", music_service |-> "spotify.com", spotify_id |-> TrackUrl,
     artist_name  |-> <<"A">>,
     track_name   |-> <<"T","5">>,
     release_name |-> "release 5"],
    [shape |-> "no_json", music_service |-> "", spotify_id |-> <<>>,
     artist_name  |-> <<>>,
     track_name   |-> <<>>,
     release_name |-> ""],
    [shape |-> "no_track_metadata", music_service |-> "", spotify_id |-> <<>>,
     artist_name  |-> <<>>,
     track_name   |-> <<>>,
     release_name |-> ""],
    [shape |-> "no_listened_at", music_service |-> "", spotify_id |-> TrackUrl,
     artist_name  |-> <<"A">>,
     track_name   |-> <<"T","8">>,
     release_name |-> "release 8"] >>

EventIds == DOMAIN Events

\* artist_raw, track_raw (lines 202-203), computed once for the pool
Raw == [e \in EventIds |->
            [artist |-> Strip(Events[e].artist_name),
             track  |-> Strip(Events[e].track_name)]]
artist_raw(e) == Raw[e].artist
track_raw(e) == Raw[e].track

\* artist_norm, track_norm (lines 206-207), computed once for the pool
Norm == [e \in EventIds |->
            [artist |-> normalize_string(artist_raw(e)),
             track  |-> normalize_string(track_raw(e))]]

\* f"{artist_raw} - {track_raw}" (the en dash of the source is written "-")
UnknownNames ==
    [e \in EventIds |-> artist_raw(e) \o <<" ", "-", " ">> \o track_raw(e)]
UnknownName(e) == UnknownNames[e]

\* album_raw (line 204); the release names of the pool have no whitespace
\* at either end for strip() to remove
album_raw(e) == Events[e].release_name

\* lb_spotify_id and "open.spotify.com/track/" in lb_spotify_id (line 210)
HasTrackPage(e) ==
    Events[e].spotify_id # <<>> /\ Contains(Events[e].spotify_id, TrackPage)

\* a fast path taken for no event
RouteAllToResolver(e) ==
    IF Events[e].shape \in {"no_json", "no_track_metadata"} THEN "rejected"
    ELSE IF Events[e].music_service = "spotify.com" THEN "skipped"
    ELSE IF Events[e].shape = "no_listened_at" THEN "rejected"
    ELSE "resolve"

\* every line taken for one that parses and has its fields
RouteUnchecked(e) ==
    IF Events[e].music_service = "spotify.com" THEN "skipped"
    ELSE IF HasTrackPage(e) THEN "direct"
    ELSE "resolve"

\* what lines 190-221 do with the line, in the order of the code:
\* json.loads or entry["track_metadata"] raises (lines 190-191); the
\* listen is one of spotify.com (line 194); entry["listened_at"] raises
\* (line 199); the record is built from the spotify_id (line 210); or
\* try_alternate_queries is called (line 222)
RouteOf(e) ==
    IF Events[e].shape \in {"no_json", "no_track_metadata"} THEN "rejected"
    ELSE IF Events[e].music_service = "spotify.com" THEN "skipped"
    ELSE IF Events[e].shape = "no_listened_at" THEN "rejected"
    ELSE IF HasTrackPage(e) THEN "direct"
    ELSE "resolve"

\* RouteOf, computed once for the pool
Routes == [e \in EventIds |-> RouteOf(e)]
Route(e) == Routes[e]

\* spotify_uri of convert_lb_entry_to_spotify_format (lines 65-69), None
\* written "None" as in the records of the resolver path
spotify_uri(e) ==
    IF HasTrackPage(e)
    THEN "spotify:track:" \o Join(SplitLast(Events[e].spotify_id, <<"/">>))
    ELSE "None"

\* the record convert_lb_entry_to_spotify_format returns (lines 71-93), its
\* fields that vary
convert_lb_entry_to_spotify_format(e) ==
    [master_metadata_track_name        |-> track_raw(e),
     master_metadata_album_artist_name |-> artist_raw(e),
     master_metadata_album_album_name  |-> album_raw(e),
     spotify_track_uri                 |-> spotify_uri(e)]

\* the records of the fast path, computed once for the pool
DirectRecords == [e \in EventIds |-> convert_lb_entry_to_spotify_format(e)]

(***************************************************************************)
(* try_alternate_queries and query_spotify_api: the pure parts.            *)
(***************************************************************************)
FeatSep == <<" ","f","e","a","t">>
Remastered == <<"r","e","m","a","s","t","e","r","e","d">>

\* the list alternates of try_alternate_queries
alternates(artist_norm, track_norm) == <<
    [artist |-> artist_norm, track |-> track_norm],
    [artist |-> <<>>, track |-> track_norm],
    [artist |-> SplitFirst(artist_norm, FeatSep), track |-> track_norm],
    [artist |-> artist_norm, track |-> ReSub(track_norm, <<WsParen, Bracket>>)],
    [artist |-> artist_norm, track |-> Strip(RemoveAll(track_norm, Remastered))] >>

Alternates == [e \in EventIds |-> alternates(Norm[e].artist, Norm[e].track)]

NumVariants == 5
NumQueries == 3

\* base_key = f"{artist}|{track}"
base_key(artist, track) == artist \o <<"|">> \o track

\* the list queries of query_spotify_api
queries(artist, track) == <<
    track \o <<" ","a","r","t","i","s","t",":">> \o artist,
    track \o <<" ">> \o artist,
    <<"t","r","a","c","k",":">> \o track >>

\* a lookup that never finds anything
InCacheNever(key, c) == FALSE

\* a lookup that takes a tombstone for a miss
InCacheTruthy(key, c) == key \in DOMAIN c /\ Truthy(c[key])

\* "base_key in cache"
InCache(key, c) == key \in DOMAIN c

(***************************************************************************)
(* The cache file on disk.                                                 *)
(***************************************************************************)
\* no file; a complete JSON object; a file opened for writing and not yet
\* completely written (empty or a prefix of the JSON text, no valid JSON)
FileAbsent == [state |-> "absent", map |-> EmptyMap]
\* a save that leaves the tombstones out
FileOfMatchesOnly(c) ==
    [state |-> "complete",
     map |-> [k \in {x \in DOMAIN c : Truthy(c[x])} |-> c[k]]]

\* save_cache(c) completed: the file holds the whole mapping
FileOf(c) == [state |-> "complete", map |-> c]
FileIncomplete == [state |-> "incomplete", map |-> EmptyMap]

\* cache files left by earlier runs, for the first run of the model
InitFiles ==
    {FileAbsent,
     FileOf(Put(EmptyMap, base_key(<<"a">>, <<"t">>), None))}

(***************************************************************************)
(* State.                                                                  *)
(***************************************************************************)
VARIABLES
    pc,          \* position of the process in convert_with_spotify_api
    rerun,       \* the program has been run before over the same files
    cache,       \* the dict cache (in memory)
    file,        \* CACHE_FILE on disk
    ev,          \* the event being processed (index into Events), 0 if none
    vi,          \* index into alternates in try_alternate_queries
    qi,          \* index into queries in query_spotify_api
    saving,      \* which save_cache call is running: "match", "tomb", "none"
    output_data, \* the list output_data
    unknowns,    \* the set unknowns
    nEvents,     \* events read so far, over all runs
    nFaults,     \* storage errors so far, over all runs
    \* history, read by the properties only
    lookup,      \* was base_key in cache at line 127 of the current call
    log,         \* search requests sent by the current resolve call
    cache0,      \* cache when the current resolve call started
    prePut,      \* cache before the last put that has not been persisted
    ioError,     \* a storage error has occurred in this run
    loaded,      \* load_cache has returned in this run
    calls,       \* per event: how its resolve calls of this run ended
    sent,        \* per event: search requests sent for it in this run
    ret,         \* the resolve call of the current event, once it returned
    curTomb,     \* events for which this run persisted a tombstone
    prevTomb,    \* events for which the previous run persisted a tombstone
    asked,       \* bag of the <<key, formulation>> of the requests of this run
    read,        \* lines read in this run: the route and event of each
    exchanges,   \* outcomes of the token exchanges of this run
    file0,       \* CACHE_FILE as this run found it
    out_file,    \* OUTPUT_FILE: as found, or written by this run
    unk_file     \* unknowns_file: as found, emptied or written

vars == <<pc, rerun, cache, file, ev, vi, qi, saving, output_data, unknowns,
          nEvents, nFaults, lookup, log, cache0, prePut, ioError, loaded,
          calls, sent, ret, curTomb, prevTomb, asked, read, exchanges, file0,
          out_file, unk_file>>

NoRet == [valid |-> FALSE, result |-> None, fromRequest |-> FALSE]
NoCalls == [e \in EventIds |-> <<>>]
NoneSent == [e \in EventIds |-> 0]

\* the values every run starts with (before line 177)
RunInit ==
    /\ pc = "auth"
    /\ cache = EmptyMap
    /\ ev = 0
    /\ vi = 0
    /\ qi = 0
    /\ saving = "none"
    /\ output_data = <<>>
    /\ unknowns = {}
    /\ lookup = FALSE
    /\ log = <<>>
    /\ cache0 = EmptyMap
    /\ prePut = EmptyMap
    /\ ioError = FALSE
    /\ loaded = FALSE
    /\ calls = NoCalls
    /\ sent = NoneSent
    /\ ret = NoRet
    /\ curTomb = {}
    /\ asked = EmptyBag
    /\ read = <<>>
    /\ exchanges = <<>>

Init ==
    /\ RunInit
    /\ rerun = FALSE
    /\ file \in InitFiles
    /\ nEvents = 0
    /\ nFaults = 0
    /\ prevTomb = {}
    /\ file0 = file
    /\ out_file = "found"
    /\ unk_file = "found"

(***************************************************************************)
(* The variant and the key the process is at.                              *)
(***************************************************************************)
\* alt_artist.strip(), alt_track.strip() (lines 117, 119), computed once
\* for the pool
Stripped ==
    [e \in EventIds |-> [v \in 1..NumVariants |->
        [artist |-> Strip(Alternates[e][v].artist),
         track  |-> Strip(Alternates[e][v].track)]]]
AltArtist == Stripped[ev][vi].artist
AltTrack == Stripped[ev][vi].track

\* base_key and queries of query_spotify_api for each call of line 119
Keys ==
    [e \in EventIds |-> [v \in 1..NumVariants |->
        base_key(Stripped[e][v].artist, Stripped[e][v].track)]]
Queries ==
    [e \in EventIds |-> [v \in 1..NumVariants |->
        queries(Stripped[e][v].artist, Stripped[e][v].track)]]
CurKey == Keys[ev][vi]

\* the key the spec calls the base key of the event
BaseKeys == [e \in EventIds |-> base_key(Norm[e].artist, Norm[e].track)]
BaseKey(e) == BaseKeys[e]

\* the keys query_spotify_api is called with for the event (line 119)
VariantKeysOf ==
    [e \in EventIds |->
        {Keys[e][v] : v \in {w \in 1..NumVariants : Stripped[e][w].track # <<>>}}]
VariantKeys(e) == VariantKeysOf[e]

\* a record that takes album and URI from the result whatever it is
RecordFromResult(e, result) ==
    [master_metadata_track_name        |-> track_raw(e),
     master_metadata_album_artist_name |-> artist_raw(e),
     master_metadata_album_album_name  |-> result.album_name,
     spotify_track_uri                 |-> result.spotify_track_uri]

\* the output record (lines 234-256), its fields that vary
Record(e, result) ==
    [master_metadata_track_name        |-> track_raw(e),
     master_metadata_album_artist_name |-> artist_raw(e),
     master_metadata_album_album_name  |->
        IF Truthy(result) THEN result.album_name ELSE album_raw(e),
     spotify_track_uri                 |->
        IF Truthy(result) THEN result.spotify_track_uri ELSE "None"]

\* try_alternate_queries returns result: lines 226-259
Finish(result, fromRequest) ==
    /\ output_data' = Append(output_data, Record(ev, result))
    /\ unknowns' = IF Truthy(result) THEN unknowns
                   ELSE unknowns \cup {UnknownName(ev)}
    /\ calls' = [calls EXCEPT ![ev] =
                    Append(@, [returned |-> TRUE, result |-> result])]
    /\ ret' = [valid |-> TRUE, result |-> result, fromRequest |-> fromRequest]
    /\ pc' = "loop"

\* an exception reaches the handler of line 264: the event is dropped
DropEvent ==
    /\ ret' = NoRet
    /\ calls' = [calls EXCEPT ![ev] =
                    Append(@, [returned |-> FALSE, result |-> None])]
    /\ pc' = "loop"
    /\ UNCHANGED <<output_data, unknowns>>

\* the loop of line 138 ending without lines 161-162
NextFormulationNoTombstone(c) ==
    /\ pc' = IF qi < NumQueries THEN "request" ELSE "save_open"
    /\ qi' = IF qi < NumQueries THEN qi + 1 ELSE qi
    /\ cache' = c
    /\ saving' = IF qi < NumQueries THEN "none" ELSE "tomb"
    /\ UNCHANGED prePut

\* the formulation at qi gave no result (no item, a non-200 response, or an
\* exception caught at line 155): the next formulation, or after the last
\* one the tombstone of lines 161-162
NextFormulation(c) ==
    IF qi < NumQueries
    THEN /\ qi' = qi + 1
         /\ pc' = "request"
         /\ cache' = c
         /\ saving' = "none"
         /\ UNCHANGED prePut
    ELSE /\ qi' = qi
         /\ pc' = "save_open"
         /\ cache' = Put(c, CurKey, None)
         /\ saving' = "tomb"
         /\ prePut' = c

(***************************************************************************)
(* Actions.                                                                *)
(***************************************************************************)
\* get_spotify_access_token succeeds (line 177)
AuthOk ==
    /\ pc = "auth"
    /\ exchanges' = Append(exchanges, "ok")
    /\ pc' = "load"
    /\ UNCHANGED <<rerun, cache, file, ev, vi, qi, saving, output_data,
                   unknowns, nEvents, nFaults, lookup, log, cache0, prePut,
                   ioError, loaded, calls, sent, ret, curTomb, prevTomb,
                   asked, read, file0, out_file, unk_file>>

\* a failed token exchange after which the run goes on
AuthFailIgnored ==
    /\ pc = "auth"
    /\ exchanges' = Append(exchanges, "failed")
    /\ pc' = "load"
    /\ UNCHANGED <<rerun, cache, file, ev, vi, qi, saving, output_data,
                   unknowns, nEvents, nFaults, lookup, log, cache0, prePut,
                   ioError, loaded, calls, sent, ret, curTomb, prevTomb,
                   asked, read, file0, out_file, unk_file>>

\* get_spotify_access_token raises (line 41 or 42): the run ends
AuthFail ==
    /\ pc = "auth"
    /\ exchanges' = Append(exchanges, "failed")
    /\ pc' = "aborted"
    /\ UNCHANGED <<rerun, cache, file, ev, vi, qi, saving, output_data,
                   unknowns, nEvents, nFaults, lookup, log, cache0, prePut,
                   ioError, loaded, calls, sent, ret, curTomb, prevTomb,
                   asked, read, file0, out_file, unk_file>>

\* load_cache (line 178) and lines 179-184
LoadCache ==
    /\ pc = "load"
    /\ file.state # "incomplete"
    /\ cache' = file.map
    /\ prePut' = file.map
    /\ loaded' = TRUE
    /\ unk_file' = "empty"
    /\ pc' = "loop"
    /\ UNCHANGED <<rerun, file, ev, vi, qi, saving, output_data, unknowns,
                   nEvents, nFaults, lookup, log, cache0, ioError, calls,
                   sent, ret, curTomb, prevTomb, asked, read, exchanges,
                   file0, out_file>>

\* load_cache raises: json.load on a file that holds no valid JSON, or a
\* read error; nothing catches it
LoadCacheFail ==
    /\ pc = "load"
    /\ file.state # "absent"
    /\ IF file.state = "incomplete"
       THEN UNCHANGED nFaults
       ELSE /\ nFaults < MaxFaults
            /\ nFaults' = nFaults + 1
    /\ ioError' = TRUE
    /\ pc' = "aborted"
    /\ UNCHANGED <<rerun, cache, file, ev, vi, qi, saving, output_data,
                   unknowns, nEvents, lookup, log, cache0, prePut, loaded,
                   calls, sent, ret, curTomb, prevTomb, asked, read,
                   exchanges, file0, out_file, unk_file>>

\* one line of an input file is read and try_alternate_queries is called
\* (lines 188-224)
NextEvent(e) ==
    /\ pc = "loop"
    /\ nEvents < MaxEvents
    /\ Route(e) = "resolve"
    /\ nEvents' = nEvents + 1
    /\ ev' = e
    /\ read' = Append(read, [route |-> "resolve", e |-> e])
    /\ vi' = 1
    /\ qi' = 0
    /\ lookup' = FALSE
    /\ log' = <<>>
    /\ cache0' = cache
    /\ ret' = NoRet
    /\ pc' = "variant"
    /\ UNCHANGED <<rerun, cache, file, saving, output_data, unknowns, nFaults,
                   prePut, ioError, loaded, calls, sent, curTomb, prevTomb,
                   asked, exchanges, file0, out_file, unk_file>>

\* one line of an input file is read and nothing comes of it: an exception
\* is caught at line 264 (lines 190, 191, 199), or the listen is skipped at
\* line 196
PassEvent(e) ==
    /\ pc = "loop"
    /\ nEvents < MaxEvents
    /\ Route(e) \in {"rejected", "skipped"}
    /\ nEvents' = nEvents + 1
    /\ ev' = e
    /\ read' = Append(read, [route |-> Route(e), e |-> 0])
    /\ vi' = 0
    /\ qi' = 0
    /\ lookup' = FALSE
    /\ log' = <<>>
    /\ cache0' = cache
    /\ ret' = NoRet
    /\ UNCHANGED <<pc, rerun, cache, file, saving, output_data, unknowns,
                   nFaults, prePut, ioError, loaded, calls, sent, curTomb,
                   prevTomb, asked, exchanges, file0, out_file, unk_file>>

\* one line of an input file is read and its record is built from its
\* spotify_id (lines 210-219)
DirectEvent(e) ==
    /\ pc = "loop"
    /\ nEvents < MaxEvents
    /\ Route(e) = "direct"
    /\ nEvents' = nEvents + 1
    /\ ev' = e
    /\ read' = Append(read, [route |-> "direct", e |-> e])
    /\ vi' = 0
    /\ qi' = 0
    /\ lookup' = FALSE
    /\ log' = <<>>
    /\ cache0' = cache
    /\ ret' = NoRet
    /\ output_data' = Append(output_data, DirectRecords[e])
    /\ UNCHANGED <<pc, rerun, cache, file, saving, unknowns, nFaults, prePut,
                   ioError, loaded, calls, sent, curTomb, prevTomb, asked,
                   exchanges, file0, out_file, unk_file>>

\* the input is exhausted: lines 267-271 write the output and the unknowns
\* file; the history of the last resolve call is dropped
EndOfInput ==
    /\ pc = "loop"
    /\ out_file' = "written"
    /\ unk_file' = "written"
    /\ pc' = "done"
    /\ lookup' = FALSE
    /\ log' = <<>>
    /\ cache0' = EmptyMap
    /\ ret' = NoRet
    /\ UNCHANGED <<rerun, cache, file, ev, vi, qi, saving, output_data,
                   unknowns, nEvents, nFaults, prePut, ioError, loaded, calls,
                   sent, curTomb, prevTomb, asked, read, exchanges, file0>>

\* a loop that skips no variant
SkipNoVariant(alt_track) == FALSE

\* "not alt_track.strip()" (line 117), of the stripped track
SkipVariant(alt_track) == alt_track = <<>>

\* one iteration of the loop of try_alternate_queries (lines 116-121) up to
\* the cache lookup of query_spotify_api (lines 126-129)
TryVariant ==
    /\ pc = "variant"
    /\ vi <= NumVariants
    /\ IF SkipVariant(AltTrack)
       THEN \* continue
            /\ vi' = vi + 1
            /\ UNCHANGED <<pc, qi, lookup, output_data, unknowns, calls, ret>>
       ELSE /\ lookup' = (CurKey \in DOMAIN cache)
            /\ IF InCache(CurKey, cache)
               THEN IF Truthy(cache[CurKey])
                    THEN /\ Finish(cache[CurKey], FALSE)
                         /\ UNCHANGED <<vi, qi>>
                    ELSE /\ vi' = vi + 1
                         /\ UNCHANGED <<pc, qi, output_data, unknowns, calls,
                                        ret>>
               ELSE /\ pc' = "request"
                    /\ qi' = 1
                    /\ UNCHANGED <<vi, output_data, unknowns, calls, ret>>
    /\ UNCHANGED <<rerun, cache, file, ev, saving, nEvents, nFaults, log,
                   cache0, prePut, ioError, loaded, sent, curTomb, prevTomb,
                   asked, read, exchanges, file0, out_file, unk_file>>

\* the loop of try_alternate_queries ends: return None (line 122)
ResolveExhausted ==
    /\ pc = "variant"
    /\ vi > NumVariants
    /\ Finish(None, FALSE)
    /\ UNCHANGED <<rerun, cache, file, ev, vi, qi, saving, nEvents, nFaults,
                   lookup, log, cache0, prePut, ioError, loaded, sent,
                   curTomb, prevTomb, asked, read, exchanges, file0, out_file,
                   unk_file>>

\* an exception taken for a response that carries an item
GotItemAlsoOnError(resp) == resp.kind \in {"items", "error"}

\* lines 142-146: the request did not raise, the status is 200 and the list
\* of items is not empty
GotItem(resp) == resp.kind = "items"

\* one search request and its response (lines 139-151)
SendRequest(resp) ==
    /\ pc = "request"
    /\ log' = Append(log, [v |-> vi, f |-> qi, key |-> CurKey,
                           q |-> Queries[ev][vi][qi],
                           cached |-> lookup,
                           items |-> GotItem(resp),
                           result |-> IF GotItem(resp)
                                      THEN Result(resp.item) ELSE None])
    /\ sent' = [sent EXCEPT ![ev] = @ + 1]
    /\ asked' = asked (+) SetToBag({<<CurKey, qi>>})
    /\ IF GotItem(resp)
       THEN /\ cache' = Put(cache, CurKey, Result(resp.item))
            /\ prePut' = cache
            /\ saving' = "match"
            /\ pc' = "save_open"
            /\ UNCHANGED qi
       ELSE NextFormulation(cache)
    /\ UNCHANGED <<rerun, file, ev, vi, output_data, unknowns, nEvents,
                   nFaults, lookup, cache0, ioError, loaded, calls, ret,
                   curTomb, prevTomb, read, exchanges, file0, out_file,
                   unk_file>>

\* save_cache, line 104: open(CACHE_FILE, "w") truncates the file
SaveOpen ==
    /\ pc = "save_open"
    /\ file' = FileIncomplete
    /\ pc' = "save_dump"
    /\ UNCHANGED <<rerun, cache, ev, vi, qi, saving, output_data, unknowns,
                   nEvents, nFaults, lookup, log, cache0, prePut, ioError,
                   loaded, calls, sent, ret, curTomb, prevTomb, asked, read,
                   exchanges, file0, out_file, unk_file>>

\* what follows a save_cache that raised: in the try block (line 152) the
\* handler of line 155 catches it and the loop goes on; at line 162 it
\* leaves query_spotify_api and try_alternate_queries
SaveRaised ==
    IF saving = "match"
    THEN /\ NextFormulation(cache)
         /\ UNCHANGED <<output_data, unknowns, calls, ret>>
    ELSE /\ DropEvent
         /\ saving' = "none"
         /\ UNCHANGED <<cache, qi, prePut>>

\* save_cache, line 104: open raises, the file is left as it was
SaveOpenFail ==
    /\ pc = "save_open"
    /\ nFaults < MaxFaults
    /\ nFaults' = nFaults + 1
    /\ ioError' = TRUE
    /\ SaveRaised
    /\ UNCHANGED <<rerun, file, ev, vi, nEvents, lookup, log, cache0, loaded,
                   sent, curTomb, prevTomb, asked, read, exchanges, file0,
                   out_file, unk_file>>

\* save_cache, line 105 and the end of the with block: the whole mapping is
\* written; then lines 153-154 (return result, which is truthy, so
\* try_alternate_queries returns it) or line 163 (return None, so the loop
\* of try_alternate_queries goes on)
SaveDump ==
    /\ pc = "save_dump"
    /\ file' = FileOf(cache)
    /\ prePut' = cache
    /\ saving' = "none"
    /\ IF saving = "match"
       THEN /\ Finish(cache[CurKey], TRUE)
            /\ UNCHANGED <<vi, curTomb>>
       ELSE /\ vi' = vi + 1
            /\ pc' = "variant"
            /\ curTomb' = curTomb \cup {ev}
            /\ UNCHANGED <<output_data, unknowns, calls, ret>>
    /\ UNCHANGED <<rerun, cache, ev, qi, nEvents, nFaults, lookup, log,
                   cache0, ioError, loaded, sent, prevTomb, asked, read,
                   exchanges, file0, out_file, unk_file>>

\* save_cache, line 105: a write raises, the file is left incomplete
SaveDumpFail ==
    /\ pc = "save_dump"
    /\ nFaults < MaxFaults
    /\ nFaults' = nFaults + 1
    /\ ioError' = TRUE
    /\ SaveRaised
    /\ UNCHANGED <<rerun, file, ev, vi, nEvents, lookup, log, cache0, loaded,
                   sent, curTomb, prevTomb, asked, read, exchanges, file0,
                   out_file, unk_file>>

Running == {"auth", "load", "loop", "variant", "request", "save_open",
            "save_dump"}

\* the process is killed: its memory is gone; cache and prePut keep, for the
\* properties, what the memory held at that instant
Kill ==
    /\ pc \in Running
    /\ pc' = "killed"
    /\ ev' = 0
    /\ vi' = 0
    /\ qi' = 0
    /\ saving' = "none"
    /\ output_data' = <<>>
    /\ unknowns' = {}
    /\ lookup' = FALSE
    /\ log' = <<>>
    /\ cache0' = EmptyMap
    /\ calls' = NoCalls
    /\ sent' = NoneSent
    /\ ret' = NoRet
    /\ asked' = EmptyBag
    /\ read' = <<>>
    /\ UNCHANGED <<rerun, cache, file, nEvents, nFaults, prePut, ioError,
                   loaded, curTomb, prevTomb, exchanges, file0, out_file,
                   unk_file>>

\* the program is run again (line 302) over the files the last run left,
\* any number of times
Restart ==
    /\ pc \in {"done", "killed", "aborted"}
    /\ rerun' = TRUE
    /\ prevTomb' = curTomb
    /\ pc' = "auth"
    /\ cache' = EmptyMap
    /\ ev' = 0
    /\ vi' = 0
    /\ qi' = 0
    /\ saving' = "none"
    /\ output_data' = <<>>
    /\ unknowns' = {}
    /\ lookup' = FALSE
    /\ log' = <<>>
    /\ cache0' = EmptyMap
    /\ prePut' = EmptyMap
    /\ ioError' = FALSE
    /\ loaded' = FALSE
    /\ calls' = NoCalls
    /\ sent' = NoneSent
    /\ ret' = NoRet
    /\ asked' = EmptyBag
    /\ read' = <<>>
    /\ exchanges' = <<>>
    /\ file0' = file
    /\ out_file' = "found"
    /\ unk_file' = "found"
    /\ curTomb' = {}
    /\ UNCHANGED <<file, nEvents, nFaults>>

Next ==
    \/ AuthOk
    \/ AuthFail
    \/ LoadCache
    \/ LoadCacheFail
    \/ \E e \in EventIds : NextEvent(e)
    \/ \E e \in EventIds : PassEvent(e)
    \/ \E e \in EventIds : DirectEvent(e)
    \/ EndOfInput
    \/ TryVariant
    \/ ResolveExhausted
    \/ \E resp \in Responses : SendRequest(resp)
    \/ SaveOpen
    \/ SaveOpenFail
    \/ SaveDump
    \/ SaveDumpFail
    \/ Kill
    \/ Restart

Spec == Init /\ [][Next]_vars

(***************************************************************************)
(* Properties.                                                             *)
(***************************************************************************)
\* a resolve call is running, or has returned and the next has not started
InCall == ev # 0 /\ pc \in {"variant", "request", "save_open", "save_dump"}
Returned == ev # 0 /\ pc \in {"loop", "done"} /\ ret.valid

\* no request of the current call was answered with an item
NoItems == \A i \in DOMAIN log : ~log[i].items

\* C1: no search request is sent for a key that had a value in the cache
\* (a match or null) when query_spotify_api looked the key up.
C1_NoRequestForCachedKey == \A i \in DOMAIN log : ~log[i].cached

\* C1: a lookup found the key in the cache after the call had sent requests
\* for other keys, and the loop goes on without a request for it.
C1_Witness ==
    /\ pc = "variant"
    /\ lookup
    /\ log # <<>>
    /\ \E k \in DOMAIN cache : \A i \in DOMAIN log : log[i].key # k

\* C2: when the base key of the event is in the cache as resolve starts,
\* with a match or with null, the call sends no search request and returns
\* the cached value.
C2_BaseHitShortCircuits ==
    (ev # 0 /\ (InCall \/ Returned) /\ BaseKey(ev) \in DOMAIN cache0)
        => /\ log = <<>>
           /\ Returned => ret.result = cache0[BaseKey(ev)]

\* C3: when resolve returns a match obtained from a search request, the
\* cache maps the base key of the event to that match.
C3_MatchUnderBaseKey ==
    (Returned /\ ret.fromRequest /\ Truthy(ret.result))
        => /\ BaseKey(ev) \in DOMAIN cache
           /\ cache[BaseKey(ev)] = ret.result

\* C4: when resolve, for a non-empty normalized track, has gone through all
\* the variants without any request answering with an item, it returns null
\* and the cache holds the base key with null.
C4_TombstoneUnderBaseKey ==
    (Returned /\ vi > NumVariants /\ Norm[ev].track # <<>> /\ NoItems)
        => /\ ret.result = None
           /\ BaseKey(ev) \in DOMAIN cache
           /\ cache[BaseKey(ev)] = None

\* C4: a call that sent requests for every variant key, none answered with
\* an item, has returned.
C4_Witness ==
    /\ Returned
    /\ vi > NumVariants
    /\ Norm[ev].track # <<>>
    /\ NoItems
    /\ Len(log) >= 2 * NumQueries
    /\ cache0 = EmptyMap

\* the request that comes first in the order of C5
Before(a, b) == a.v < b.v \/ (a.v = b.v /\ a.f < b.f)

\* C5: from a cache holding none of the variant keys, the requests of a
\* resolve call go out in the order of the variants and, within a variant,
\* of the three formulations; no request follows one that was answered with
\* an item, and the call returns the result built from that item (null when
\* no request was answered with an item).
C5_FixedOrderFirstWins ==
    (ev # 0 /\ (InCall \/ Returned) /\ VariantKeys(ev) \cap DOMAIN cache0 = {})
        => /\ \A i, j \in DOMAIN log : i < j => Before(log[i], log[j])
           /\ \A i \in DOMAIN log :
                log[i].q = queries(Strip(Alternates[ev][log[i].v].artist),
                                   Strip(Alternates[ev][log[i].v].track))[log[i].f]
           /\ \A i \in DOMAIN log : log[i].items => i = Len(log)
           /\ Returned =>
                ret.result = IF log # <<>> /\ log[Len(log)].items
                             THEN log[Len(log)].result ELSE None

\* the calls of resolve for the current event that ended before the current
\* one started
Prior ==
    IF pc \in {"loop", "done"}
    THEN SubSeq(calls[ev], 1, Len(calls[ev]) - 1)
    ELSE calls[ev]

\* C6: a resolve call for a pair that resolve was called for before in the
\* run sends no search request and returns what the first call returned.
C6_SecondCallFromCache ==
    (ev # 0 /\ (InCall \/ Returned) /\ Prior # <<>>)
        => /\ log = <<>>
           /\ (Returned /\ Prior[1].returned) => ret.result = Prior[1].result

\* the resolve calls started for event e in this run
Started(e) == Len(calls[e]) + (IF InCall /\ ev = e THEN 1 ELSE 0)

\* C7, as stated: up to two resolve calls for a pair send at most one
\* search request in total.
C7_AtMostOneRequest ==
    \A e \in EventIds : Started(e) <= 2 => sent[e] <= 1

\* C7, amended: the resolve calls for a pair send in total at most three
\* search requests, one per formulation, for each distinct cache key among
\* the variants of the pair (so at most 15).
C7_AtMostThreePerVariantKey ==
    \A e \in EventIds :
        /\ sent[e] <= 3 * Cardinality(VariantKeys(e))
        /\ sent[e] <= 15

\* C7: two calls for a pair have returned and three requests went out for
\* each of its four variant keys.
C7_Witness ==
    \E e \in EventIds :
        /\ Len(calls[e]) = 2
        /\ Cardinality(VariantKeys(e)) = 4
        /\ sent[e] = 12

\* C8: when the previous run persisted a tombstone while resolving an
\* input, this run, having loaded the file that run left, sends no search
\* request for the same input and returns null.
C8_TombstoneSuppressesNextRun ==
    (rerun /\ ev # 0 /\ ev \in prevTomb /\ (InCall \/ Returned))
        => /\ log = <<>>
           /\ Returned => ret.result = None

\* C9: where no put is in progress and no storage error has occurred in the
\* run, the cache file holds a complete mapping equal to the cache in
\* memory (no file for the empty cache that load_cache made of no file).
C9_FileEqualsCache ==
    (loaded /\ ~ioError /\ pc \in {"loop", "variant", "request", "done"})
        => /\ file.state # "incomplete"
           /\ file.map = cache
           /\ file.state = "absent" => cache = EmptyMap

\* C9: a put of this call has been persisted and the next request is about
\* to be sent.
C9_Witness ==
    /\ loaded
    /\ ~ioError
    /\ pc = "request"
    /\ cache # cache0
    /\ \E k \in DOMAIN cache : cache[k] = None /\ k \notin DOMAIN cache0

\* C10: when the process is killed, the cache file is a complete mapping,
\* equal to the cache in memory before or after the most recent put.
C10_FileNeverPartial ==
    (pc = "killed" /\ loaded)
        => /\ file.state # "incomplete"
           /\ file.map = cache \/ file.map = prePut

\* C11: once writing or reading the cache file has failed in a run, the run
\* is aborted: the process is at no position from which a search request
\* is sent or an event is read or processed.
C11_StorageErrorAborts ==
    ioError => pc \in {"aborted", "killed"}

\* C12: a search request that raises or is answered with a non-200 status
\* aborts neither resolve nor the run: the step it makes is the step the
\* same request answered with no item makes, which goes to the next
\* formulation of the same variant or, after the third, to the put of the
\* tombstone that precedes the next variant; no record and no unmatched
\* entry is written by it.
C12_FailedRequestAsNoItem ==
    [][\A r \in Responses :
          (r.kind \in {"status", "error"} /\ SendRequest(r)) =>
             /\ \E r0 \in Responses : r0.kind = "empty" /\ SendRequest(r0)
             /\ vi' = vi
             /\ IF qi < NumQueries
                THEN qi' = qi + 1 /\ pc' = "request" /\ cache' = cache
                ELSE /\ pc' = "save_open"
                     /\ saving' = "tomb"
                     /\ cache' = Put(cache, CurKey, None)
             /\ output_data' = output_data
             /\ unknowns' = unknowns]_vars

\* C12: the first two formulations of a variant were not answered with an
\* item and the third is about to be sent.
C12_Witness ==
    /\ pc = "request"
    /\ qi = NumQueries
    /\ Len(log) >= 2
    /\ ~log[Len(log)].items
    /\ ~log[Len(log) - 1].items
    /\ log[Len(log)].v = vi

\* C13: in a run without storage errors no search request is sent twice
\* for the same cache key and formulation, whichever resolve calls of the
\* run sent them and whatever the first one came back with.
C13_NoRequestTwice ==
    ~ioError => \A p \in BagToSet(asked) : CopiesIn(p, asked) = 1

\* C13: a later call of resolve came to a key for which the three
\* formulations were sent, without an item, by an earlier call of the run,
\* and found it in the cache.
C13_Witness ==
    /\ ~ioError
    /\ pc = "variant"
    /\ lookup
    /\ log = <<>>
    /\ \E e \in EventIds : calls[e] # <<>>
    /\ \E k \in DOMAIN cache :
          /\ cache[k] = None
          /\ k \in VariantKeys(ev)
          /\ \A f \in 1..NumQueries : CopiesIn(<<k, f>>, asked) = 1

\* the step reads event e from the input
Reads(e) == pc = "loop" /\ nEvents' = nEvents + 1 /\ ev' = e

\* the spotify_id of the event contains "open.spotify.com/track/"
CarriesTrackPage ==
    [e \in EventIds |->
        \E i \in 1..Len(Events[e].spotify_id) :
            StartsAt(Events[e].spotify_id, i, TrackPage)]

\* "spotify:track:" followed by what follows the last "/" of the spotify_id
TrackPageUri ==
    [e \in EventIds |->
        LET id == Events[e].spotify_id
            slashes == {i \in 1..Len(id) : id[i] = "/"}
            last == IF slashes = {} THEN 0
                    ELSE CHOOSE i \in slashes : \A j \in slashes : j <= i
        IN  "spotify:track:" \o Join(SubSeq(id, last + 1, Len(id)))]

\* the step adds one record with the URI of the spotify_id of e to the
\* output and does nothing else: no call of the resolver, no lookup in the
\* cache, no request, no change of the cache, of its file or of unknowns
EmitsDirectRecord(e) ==
    /\ Len(output_data') = Len(output_data) + 1
    /\ SubSeq(output_data', 1, Len(output_data)) = output_data
    /\ output_data'[Len(output_data')].spotify_track_uri = TrackPageUri[e]
    /\ pc' = "loop"
    /\ lookup' = FALSE
    /\ log' = <<>>
    /\ calls' = calls
    /\ sent' = sent
    /\ asked' = asked
    /\ cache' = cache
    /\ file' = file
    /\ unknowns' = unknowns

\* C14, as stated: every event whose spotify_id contains
\* "open.spotify.com/track/" gives exactly one output record, with the URI
\* "spotify:track:" and the last segment of the spotify_id, and the
\* resolver is not invoked: no request, no read or change of the cache,
\* nothing added to unknowns.
C14_EveryTrackPageEventEmits ==
    [][\A e \in EventIds :
          (Reads(e) /\ CarriesTrackPage[e]) => EmitsDirectRecord(e)]_vars

\* C14, amended: the same for every such event that has track_metadata and
\* listened_at and is not a listen of music_service "spotify.com".
C14_DirectEventEmits ==
    [][\A e \in EventIds :
          (/\ Reads(e)
           /\ CarriesTrackPage[e]
           /\ Events[e].shape = "ok"
           /\ Events[e].music_service # "spotify.com") => EmitsDirectRecord(e)]_vars

\* C14: an event with a spotify_id of a track page has just been read, after
\* the resolver had put a key in the cache for an earlier event, and its
\* record is the last of the output.
C14_Witness ==
    /\ pc = "loop"
    /\ ev # 0
    /\ CarriesTrackPage[ev]
    /\ Events[ev].shape = "ok"
    /\ Events[ev].music_service # "spotify.com"
    /\ cache # EmptyMap
    /\ Len(output_data) = 2
    /\ output_data[2].spotify_track_uri = "spotify:track:x1"
    /\ output_data[2].master_metadata_track_name = track_raw(ev)

\* C15: a resolve call for an event whose normalized track is empty sends
\* no search request, looks nothing up and puts nothing in the cache, and
\* returns null after having skipped the five variants.
C15_EmptyTrackNoRequest ==
    (ev # 0 /\ (InCall \/ Returned) /\ Norm[ev].track = <<>>)
        => /\ log = <<>>
           /\ pc \notin {"request", "save_open", "save_dump"}
           /\ ~lookup
           /\ cache = cache0
           /\ Returned => /\ ret.result = None
                          /\ ~ret.fromRequest
                          /\ vi = NumVariants + 1

\* C15: resolve has returned for an event with a track of punctuation
\* only, in a run that sent requests for another event.
C15_Witness ==
    /\ Returned
    /\ track_raw(ev) # <<>>
    /\ Norm[ev].track = <<>>
    /\ Norm[ev].artist # <<>>
    /\ \E e \in EventIds : sent[e] > 0

\* the line does not parse as JSON or lacks track_metadata or listened_at
Malformed(e) == Events[e].shape # "ok"

\* C16: the step that reads a malformed line adds no record to the output
\* and no string to unknowns, changes nothing of the cache and leaves the
\* process in the loop over the lines, where the next line of the file, or
\* of the next file, is read.
C16_MalformedEventDropped ==
    [][\A e \in EventIds :
          (Reads(e) /\ Malformed(e)) =>
             /\ output_data' = output_data
             /\ unknowns' = unknowns
             /\ cache' = cache
             /\ file' = file
             /\ sent' = sent
             /\ pc' = "loop"]_vars

\* C16: a line was rejected and the line read after it was resolved and has
\* its record in the output, the only one.
C16_Witness ==
    /\ Returned
    /\ Len(read) = 2
    /\ read[1].route = "rejected"
    /\ read[2].route = "resolve"
    /\ unknowns = {}
    /\ Len(output_data) = 1
    /\ output_data[1].master_metadata_track_name = track_raw(ev)

\* the line was neither skipped nor rejected
Accepted(r) == r.route \notin {"skipped", "rejected"}

\* C17: when the run has completed, the output holds one record for each
\* line read that was neither skipped nor rejected as malformed, and the
\* records are in the order in which the lines were read.
C17_OutputFollowsInput ==
    pc = "done" =>
        LET acc == SelectSeq(read, Accepted)
        IN  /\ Len(output_data) = Len(acc)
            /\ \A i \in 1..Len(acc) :
                  i <= Len(output_data) =>
                    /\ output_data[i].master_metadata_track_name
                          = track_raw(acc[i].e)
                    /\ output_data[i].master_metadata_album_artist_name
                          = artist_raw(acc[i].e)

\* the records of the output that carry the raw names of event e
RecordsOf(e) ==
    LET IsOf(r) == /\ r.master_metadata_track_name = track_raw(e)
                   /\ r.master_metadata_album_artist_name = artist_raw(e)
    IN  SelectSeq(output_data, IsOf)

\* what the resolve calls for event e that returned in this run returned
ReturnsOf(e) ==
    LET Ret(c) == c.returned
    IN  SelectSeq(calls[e], Ret)

\* the events that went to the resolver
Resolved == {e \in EventIds : Route(e) = "resolve"}

\* C18: between events, the records built from what resolve returned are
\* one per call that returned; a record for which resolve returned null
\* has no spotify_track_uri and the release_name of its event as album,
\* and the "artist - track" string of its event is in unknowns; unknowns
\* holds no other string than those of the events for which resolve
\* returned null.
C18_NullResultRecord ==
    pc \in {"loop", "done"} =>
        /\ \A e \in Resolved :
              /\ Len(RecordsOf(e)) = Len(ReturnsOf(e))
              /\ \A k \in 1..Len(ReturnsOf(e)) :
                    (k <= Len(RecordsOf(e)) /\ ReturnsOf(e)[k].result = None) =>
                        /\ RecordsOf(e)[k].spotify_track_uri = "None"
                        /\ RecordsOf(e)[k].master_metadata_album_album_name
                              = album_raw(e)
                        /\ UnknownName(e) \in unknowns
        /\ \A u \in unknowns :
              \E e \in Resolved :
                  /\ u = UnknownName(e)
                  /\ \E k \in 1..Len(ReturnsOf(e)) :
                        ReturnsOf(e)[k].result = None

\* C18: resolve returned null for the second event after requests without
\* an item, and a match for the first.
C18_Witness ==
    /\ Returned
    /\ ret.result = None
    /\ sent[ev] > 0
    /\ Len(output_data) = 2
    /\ output_data[1].spotify_track_uri = "spotify:track:1"
    /\ output_data[2].spotify_track_uri = "None"
    /\ unknowns = {UnknownName(ev)}

\* C19: a run makes one token exchange and no second one; the cache is
\* loaded (or its load fails), a line is read and a search request is sent
\* only after it; and after a failed exchange the run is aborted with no
\* line read, no request sent, the cache not loaded and the cache file,
\* the output file and the unknowns file as the run found them.
C19_OneTokenExchangeFirst ==
    /\ Len(exchanges) <= 1
    /\ pc \notin {"auth", "killed"} => Len(exchanges) = 1
    /\ (loaded \/ ioError \/ read # <<>> \/ asked # EmptyBag
            \/ unk_file # "found" \/ out_file # "found")
         => exchanges = <<"ok">>
    /\ exchanges = <<"failed">> =>
         /\ pc = "aborted"
         /\ read = <<>>
         /\ output_data = <<>>
         /\ asked = EmptyBag
         /\ ~loaded
         /\ cache = EmptyMap
         /\ file = file0
         /\ out_file = "found"
         /\ unk_file = "found"

\* C19: the token exchange of a second run has failed, over a cache file
\* that the first run wrote.
C19_Witness ==
    /\ rerun
    /\ pc = "aborted"
    /\ exchanges = <<"failed">>
    /\ file.state = "complete"
    /\ \E k \in DOMAIN file.map : Truthy(file.map[k])

\* the mapping big holds every key of small, with the value small gives it
Extends(big, small) ==
    \A k \in DOMAIN small : k \in DOMAIN big /\ big[k] = small[k]

====
